---- MODULE Spec2Model ----
(***************************************************************************)
(* A model of the movie catalog of myMovieRatingApp: the dynamic array of  *)
(* Movie pointers kept by main(), its growth, the insertion scan of the    *)
(* "add" menu entry, the compacting delete_movie of the list view, and     *)
(* the text file written by save_movies_to_file and read back by           *)
(* load_movies_from_file.                                                  *)
(*                                                                         *)
(* Strings are sequences of one-character strings, so that the file is a   *)
(* sequence of characters on which fgets, strtok and atoi work as in C.    *)
(* A float rating is kept in tenths (the precision "%.1f" prints).         *)
(***************************************************************************)
EXTENDS Integers, Sequences, FiniteSets, Bags, TLC

VARIABLES
    pc,                 \* where the program is: "start", "menu", "list", "confirm", "rate",
                        \* "rate_popup", "rate_flush", "done", "undefined"; "api" for a direct
                        \* caller of the functions of movie.c
    movies,             \* the storage movies points to: slot index -> slot
    allocated,          \* number of slots the storage really has (0: movies == NULL)
    movie_count,        \* main()'s movie_count
    movie_capacity,     \* main()'s movie_capacity
    data_changed,       \* main()'s data_changed
    count,              \* display_movie_list_ui's parameter count (a copy of movie_count)
    current_highlight,  \* display_movie_list_ui's current_highlight
    current_start,      \* display_movie_list_ui's current_start
    rate_index,         \* the slot whose record rate_movie is prompting for
    file,               \* the content of movies.txt, a sequence of characters
    nextId,             \* identity of the next Movie structure malloc returns
    fault,              \* "none", or the undefined behaviour the run ended in
    ops,                \* number of add / delete / rate requests the user still makes
    record,             \* the Movie a caller of create_movie and update_movie holds
    arg,                \* the last call of create_movie or update_movie: its
                        \* arguments, the allocation that failed in it, what it returned
    heap,               \* number of blocks malloc and strdup gave such a caller that
                        \* were not freed
    freed               \* the blocks of the catalog's records that were passed to
                        \* free, a bag: how often each was

vars == << pc, movies, allocated, movie_count, movie_capacity, data_changed,
           count, current_highlight, current_start, rate_index, file, nextId,
           fault, ops, record, arg, heap, freed >>

\* what a direct caller of the functions of movie.c holds; main() makes no
\* such call outside the catalog, and leaves these alone
api == << record, arg, heap >>

(***************************************************************************)
(* Bounds of the model and constants of the program.                       *)
(***************************************************************************)
\* main.c:61  int movie_capacity = 10
InitCapacity == 10
\* main.c:325  char line[256]
LineBuf == 256
\* ui.c:271  const int display_count = 5
display_count == 5
\* the calendar year localtime() reports while the model runs
CurrentYear == 2026
\* longest file of well-formed lines the program starts from
MaxFileLines == 11
\* longest file of mixed (well- and ill-formed) lines the program starts from
MaxMixedLines == 2
\* number of add / delete / rate requests in a run that starts from a short file
MaxOps == 2
\* number of add / delete / rate requests in a run that starts from a file that
\* fills the initial storage
MaxOpsFull == 1
\* number of calls a direct caller of create_movie and update_movie makes
MaxCalls == 2
\* number of slots of an array handed to search_tv_series and sort_tv_series
MaxSeries == 3
\* number of keys the user types to one call of rate_movie
MaxKeys == 4
\* number of keys the user types to one call of main_menu
MaxMenuKeys == 4
\* number of slots of memory the model keeps track of
MaxSlots == 2 * InitCapacity

(***************************************************************************)
(* Characters and numbers: atoi, "%d" and "%.1f".                          *)
(***************************************************************************)
Digits == << "0", "1", "2", "3", "4", "5", "6", "7", "8", "9" >>

IsDigit(c) == \E i \in 1..10 : Digits[i] = c

DigitVal(c) == (CHOOSE i \in 1..10 : Digits[i] = c) - 1

\* isspace, as atoi uses it to skip leading white space
IsSpace(c) == c \in {" ", "\t", "\n", "\r"}

RECURSIVE SkipSpace(_)
SkipSpace(s) ==
    IF s # << >> /\ IsSpace(Head(s)) THEN SkipSpace(Tail(s)) ELSE s

RECURSIVE AtoiDigits(_, _)
AtoiDigits(s, acc) ==
    IF s = << >> \/ ~IsDigit(Head(s))
    THEN acc
    ELSE AtoiDigits(Tail(s), acc * 10 + DigitVal(Head(s)))

\* atoi: optional white space, optional sign, then the leading digits; 0 if none
atoi(s) ==
    LET t == SkipSpace(s) IN
    IF t = << >> THEN 0
    ELSE IF Head(t) = "-" THEN 0 - AtoiDigits(Tail(t), 0)
    ELSE IF Head(t) = "+" THEN AtoiDigits(Tail(t), 0)
    ELSE AtoiDigits(t, 0)

RECURSIVE NatToStr(_)
NatToStr(n) ==
    IF n < 10 THEN << Digits[n + 1] >>
    ELSE NatToStr(n \div 10) \o << Digits[(n % 10) + 1] >>

\* printf "%d"
IntToStr(n) == IF n < 0 THEN << "-" >> \o NatToStr(0 - n) ELSE NatToStr(n)

\* printf "%.1f" of a float kept in tenths
FloatToStr(r) ==
    LET a == IF r < 0 THEN 0 - r ELSE r IN
    (IF r < 0 THEN << "-" >> ELSE << >>)
        \o NatToStr(a \div 10) \o << "." >> \o << Digits[(a % 10) + 1] >>

(***************************************************************************)
(* Slots and records.                                                      *)
(***************************************************************************)
\* a NULL char pointer (no sequence of characters has this shape)
NULLSTR == << "NULL" >>

\* a NULL Movie pointer
NULL == [kind |-> "null"]

\* a slot of malloc'ed or realloc'ed storage nothing was stored in yet
UNINIT == [kind |-> "uninit"]

IsMovie(slot) == slot.kind = "movie"

\* no call of create_movie or update_movie was made yet
NoCall == [fn |-> "none"]

\* what the rating of a freshly malloc'ed Movie may read as (create_movie
\* never assigns it), in tenths
UninitRatings == {0, 37}

\* CreateMovie as it would be if the year 1800 itself were let through
CreateMovieFrom1800(title, director, year, id, garbage, mallocOK) ==
    IF title = NULLSTR \/ director = NULLSTR \/ year < 1800
    THEN NULL
    ELSE IF ~mallocOK
    THEN NULL
    ELSE [kind |-> "movie", id |-> id, title |-> title, director |-> director,
          year |-> year, rating |-> garbage]

\* movie.c:43-76: rejects NULL strings and year <= 1800, then allocates
CreateMovie(title, director, year, id, garbage, mallocOK) ==
    IF title = NULLSTR \/ director = NULLSTR \/ year <= 1800
    THEN NULL
    ELSE IF ~mallocOK
    THEN NULL
    ELSE [kind |-> "movie", id |-> id, title |-> title, director |-> director,
          year |-> year, rating |-> garbage]

(***************************************************************************)
(* save_movies_to_file.                                                    *)
(***************************************************************************)
\* FormatLine as it would be with the rating left out of the format
FormatLineNoRating(m) ==
    m.title \o << "|" >> \o m.director \o << "|" >> \o IntToStr(m.year)
        \o << "\n" >>

\* FormatLine as it would be with the newline left out of the format
FormatLineNoNewline(m) ==
    m.title \o << "|" >> \o m.director \o << "|" >> \o IntToStr(m.year)
        \o << "|" >> \o FloatToStr(m.rating)

\* main.c:292  fprintf(file, "%s|%s|%d|%.1f\n", ...)
FormatLine(m) ==
    m.title \o << "|" >> \o m.director \o << "|" >> \o IntToStr(m.year)
        \o << "|" >> \o FloatToStr(m.rating) \o << "\n" >>

\* main.c:287-294: the lines of slots i..n-1, NULL slots skipped
RECURSIVE SaveText(_, _, _)
SaveText(arr, i, n) ==
    IF i >= n THEN << >>
    ELSE (IF arr[i] # NULL THEN FormatLine(arr[i]) ELSE << >>)
             \o SaveText(arr, i + 1, n)

\* save dereferences movies[i] for every i < count: it needs storage and a
\* stored pointer in each of these slots
SaveReadable(arr, alloc, n) ==
    n = 0 \/ (alloc > 0 /\ \A i \in 0..(n - 1) : arr[i] # UNINIT)

(***************************************************************************)
(* load_movies_from_file.                                                  *)
(***************************************************************************)
Min(S) == CHOOSE x \in S : \A y \in S : x <= y

\* main.c:326  fgets(line, sizeof(line), file): the length of what one call
\* reads, up to and including the next newline, at most LineBuf - 1 characters
FgetsLen(f) ==
    LET nl == {i \in 1..Len(f) : f[i] = "\n"}
        n  == IF nl = {} THEN Len(f) ELSE Min(nl)
    IN  IF n > LineBuf - 1 THEN LineBuf - 1 ELSE n

\* main.c:329  line[strcspn(line, "\n")] = 0
TrimNewline(s) ==
    LET nl == {i \in 1..Len(s) : s[i] = "\n"}
    IN  IF nl = {} THEN s ELSE SubSeq(s, 1, Min(nl) - 1)

RECURSIVE SkipDelims(_)
SkipDelims(s) ==
    IF s # << >> /\ Head(s) = "|" THEN SkipDelims(Tail(s)) ELSE s

\* strtok(.., "|"): skips leading delimiters, returns the run of characters up
\* to the next delimiter (NULL if none is left) and resumes after that delimiter
Strtok(s) ==
    LET t  == SkipDelims(s)
        ds == {i \in 1..Len(t) : t[i] = "|"}
        n  == IF ds = {} THEN Len(t) ELSE Min(ds) - 1
    IN  IF t = << >>
        THEN [tok |-> NULLSTR, rest |-> << >>]
        ELSE [tok |-> SubSeq(t, 1, n), rest |-> SubSeq(t, n + 2, Len(t))]

\* Realloc as it would be if the new storage were not filled from the old one
ReallocFresh(arr, old_slots) == [i \in DOMAIN arr |-> UNINIT]

\* main.c:262  realloc(entries, ...): the storage returned holds what the
\* old_slots slots of the old storage held, the slots added hold nothing yet
Realloc(arr, old_slots) ==
    [i \in DOMAIN arr |-> IF i < old_slots THEN arr[i] ELSE UNINIT]

\* ResizeEntries as it would be if the storage grew by one slot at a time
ResizeEntriesByOne(capacity, reallocOK) ==
    [capacity |-> capacity + 1,
     slots |-> IF reallocOK THEN capacity + 1 ELSE 0]

\* main.c:259-263: *capacity is doubled, then realloc is asked for that many
\* pointers; slots is the size of the storage returned, 0 for NULL
ResizeEntries(capacity, reallocOK) ==
    [capacity |-> 2 * capacity,
     slots |-> IF reallocOK THEN 2 * capacity ELSE 0]

\* main.c:334: *movies = resize_entries(*movies, capacity), NULL included
LoadResize(st, reallocOK) ==
    [st EXCEPT !.capacity = ResizeEntries(st.capacity, reallocOK).capacity,
               !.allocated = ResizeEntries(st.capacity, reallocOK).slots,
               !.movies = IF reallocOK THEN Realloc(st.movies, st.allocated)
                          ELSE st.movies]

\* main.c:329-353: one line of the file
LoadLine(st, chunk, reallocOK, garbage) ==
    LET line == TrimNewline(chunk)
        s1   == IF st.count = st.capacity THEN LoadResize(st, reallocOK) ELSE st
        t1   == Strtok(line)
        t2   == Strtok(t1.rest)
        t3   == Strtok(t2.rest)
        title    == t1.tok
        director == t2.tok
        year_str == t3.tok
    IN  IF title # NULLSTR /\ director # NULLSTR /\ year_str # NULLSTR
        THEN LET year  == atoi(year_str)
                 movie == CreateMovie(title, director, year, s1.nextId, garbage, TRUE)
             IN  IF movie # NULL
                 THEN IF s1.allocated = 0
                      THEN [s1 EXCEPT !.fault = "null_deref"]
                      ELSE [s1 EXCEPT !.movies[s1.count] = movie,
                                      !.count = s1.count + 1,
                                      !.nextId = s1.nextId + 1]
                 ELSE s1
        ELSE s1

\* main.c:326-354: the loop over the lines fgets delivers
RECURSIVE LoadLoop(_, _, _, _)
LoadLoop(st, f, reallocOK, garbage) ==
    IF f = << >> \/ st.fault # "none" THEN st
    ELSE LET n == FgetsLen(f)
         IN  LoadLoop(LoadLine(st, SubSeq(f, 1, n), reallocOK, garbage),
                      SubSeq(f, n + 1, Len(f)), reallocOK, garbage)

(***************************************************************************)
(* The files the program may find when it starts.                          *)
(***************************************************************************)
\* fopen(filename, "r") fails: there is no movies.txt
NoFile == << "ENOENT" >>

GoodLine == << "a", "|", "d", "|", "1", "9", "9", "9", "\n" >>

SampleLines ==
    { GoodLine,
      << "b", "|", "e", "|", "2", "0", "0", "1", "|", "4", ".", "5", "\n" >>,
      << "B", "a", "d", "L", "i", "n", "e", "\n" >>,
      << "c", "|", "d", "|", "z", "z", "\n" >>,
      << "c", "|", "d", "|", "1", "8", "0", "0", "\n" >>,
      << "c", "|", "|", "1", "9", "9", "9", "\n" >> }

RECURSIVE Repeat(_, _)
Repeat(line, k) == IF k = 0 THEN << >> ELSE line \o Repeat(line, k - 1)

RECURSIVE MixedFiles(_)
MixedFiles(k) ==
    IF k = 0 THEN { << >> }
    ELSE LET shorter == MixedFiles(k - 1)
         IN  shorter \cup { f \o l : f \in shorter, l \in SampleLines }

\* a line longer than the buffer of fgets: the first LineBuf - 1 characters
\* are a|d|1999|pp...p, the rest is b|e|2001
LongLine ==
    << "a", "|", "d", "|", "1", "9", "9", "9", "|" >>
        \o [i \in 1..(LineBuf - 10) |-> "p"]
        \o << "b", "|", "e", "|", "2", "0", "0", "1", "\n" >>

\* a well-formed line whose year is next year
FutureLine ==
    << "f", "|", "g", "|" >> \o IntToStr(CurrentYear + 1) \o << "\n" >>

\* a line whose second field is empty, followed by three more fields
EmptyFieldLine ==
    << "a", "|", "|", "d", "|", "1", "9", "9", "9", "\n" >>

\* files of well-formed lines that fill the initial storage
FullFiles == { Repeat(GoodLine, k) : k \in InitCapacity..MaxFileLines }

\* a file of well-formed lines with one record more than the list view shows
ScrollFile == Repeat(GoodLine, display_count + 1)

InitFiles ==
    { NoFile, LongLine, FutureLine, EmptyFieldLine, ScrollFile }
        \cup MixedFiles(MaxMixedLines) \cup FullFiles

(***************************************************************************)
(* What the user may type.                                                 *)
(***************************************************************************)
AddTitles == { << >>, << "a" >>, << "b", "|" >> }
AddDirectors == { << >>, << "d" >> }
AddYears == { << >>, << "1", "8", "0", "0" >>, << "1", "9", "9", "9" >>,
              << "2", "9", "9", "9" >> }
ConfirmKeys == { "y", "Y", "n", "x" }
\* what getch returns when it has no key to report (ERR, the value of EOF)
EOF == "EOF"
RateKeys == { "3", "5", "0", "6", "\n", EOF }

(***************************************************************************)
(* main(): start of the program.                                           *)
(***************************************************************************)
\* main.c:61-63: capacity 10, count 0, storage for 10 pointers from malloc
FreshCatalog ==
    [movies |-> [i \in 0..(MaxSlots - 1) |-> UNINIT], count |-> 0,
     capacity |-> InitCapacity, allocated |-> InitCapacity, nextId |-> 1,
     fault |-> "none"]

Init ==
    /\ pc = "start"
    /\ movies = FreshCatalog.movies
    /\ allocated = FreshCatalog.allocated
    /\ movie_count = FreshCatalog.count
    /\ movie_capacity = FreshCatalog.capacity
    /\ data_changed = FALSE
    /\ count = 0
    /\ current_highlight = 0
    /\ current_start = 0
    /\ rate_index = 0
    /\ file \in InitFiles
    /\ nextId = FreshCatalog.nextId
    /\ fault = "none"
    /\ ops = IF file \in FullFiles \cup { ScrollFile } THEN MaxOpsFull ELSE MaxOps
    /\ record = NULL
    /\ arg = NoCall
    /\ heap = 0
    /\ freed = EmptyBag

\* LoadResult as it would be if the lines were read without the test of what
\* fopen returned
LoadResultUntested(st0, f, reallocOK, garbage) ==
    IF f = NoFile THEN [st0 EXCEPT !.fault = "null_deref"]
    ELSE LoadLoop(st0, f, reallocOK, garbage)

\* main.c:316-357: the catalog load_movies_from_file makes of catalog st0
LoadResult(st0, f, reallocOK, garbage) ==
    IF f = NoFile THEN st0 ELSE LoadLoop(st0, f, reallocOK, garbage)

\* the catalog main() holds
Catalog ==
    [movies |-> movies, count |-> movie_count, capacity |-> movie_capacity,
     allocated |-> allocated, nextId |-> nextId, fault |-> fault]

\* main.c:74-75: load_movies_from_file("movies.txt", ...), then the menu
Load(reallocOK, garbage) ==
    /\ pc = "start"
    /\ LET st == LoadResult(Catalog, file, reallocOK, garbage)
       IN  /\ movies' = st.movies
           /\ movie_count' = st.count
           /\ movie_capacity' = st.capacity
           /\ allocated' = st.allocated
           /\ nextId' = st.nextId
           /\ fault' = st.fault
           /\ pc' = IF st.fault = "none" THEN "menu" ELSE "undefined"
    /\ UNCHANGED << data_changed, count, current_highlight, current_start,
                    rate_index, file, ops >>
    /\ UNCHANGED << api, freed >>

Startup == \E garbage \in UninitRatings : Load(TRUE, garbage)

\* the same with realloc failing, where load calls it
StartupNoMemory ==
    /\ \E garbage \in UninitRatings : Load(FALSE, garbage)
    /\ allocated' = 0

(***************************************************************************)
(* main(): the "add movie" menu entry.                                     *)
(***************************************************************************)
\* main.c:120, 133: a blank title or director is asked for again
ValidName(str) == Len(str) # 0

\* main.c:146-147: a blank year, a year <= 1800 or a year after the current
\* one is asked for again
ValidYear(year_str) ==
    ~(Len(year_str) = 0 \/ atoi(year_str) <= 1800 \/ atoi(year_str) > CurrentYear)

\* InsertIndex as it would be if add only ever appended
InsertIndexAppendOnly(arr, n) == 0 - 1

\* main.c:160-169: the first NULL slot below movie_count, -1 if there is none
InsertIndex(arr, n) ==
    LET gaps == {i \in 0..(n - 1) : arr[i] = NULL}
    IN  IF gaps = {} THEN 0 - 1 ELSE Min(gaps)

\* main.c:160-185: new_movie goes into the slot the scan found and the count
\* stays, or into slot n and the count becomes n + 1; index is the slot used
AddResult(arr, n, new_movie) ==
    LET insert_index == InsertIndex(arr, n)
    IN  IF insert_index # 0 - 1
        THEN [movies |-> [arr EXCEPT ![insert_index] = new_movie],
              count |-> n, index |-> insert_index]
        ELSE [movies |-> [arr EXCEPT ![n] = new_movie],
              count |-> n + 1, index |-> n]

\* main.c:175-190: the store happens only if create_movie returned a record
AddStore(arr, n, new_movie) ==
    IF new_movie # NULL THEN AddResult(arr, n, new_movie)
    ELSE [movies |-> arr, count |-> n, index |-> 0 - 1]

\* main.c:84-192
AddEntry(title, director, year_str, reallocOK, mallocOK, garbage) ==
    /\ pc = "menu"
    /\ ops > 0
    /\ ops' = ops - 1
    /\ UNCHANGED << count, current_highlight, current_start, rate_index, file >>
    /\ LET grow == movie_count = movie_capacity
           temp == ResizeEntries(movie_capacity, reallocOK)
       IN  IF grow /\ temp.slots = 0
           THEN \* main.c:87-91: movies is kept, the case is left
                /\ movie_capacity' = temp.capacity
                /\ UNCHANGED << pc, movies, allocated, movie_count, data_changed,
                                nextId, fault >>
           ELSE LET cap1   == IF grow THEN temp.capacity ELSE movie_capacity
                    alloc1 == IF grow THEN temp.slots ELSE allocated
                    \* realloc(NULL, n) is malloc(n): nothing is copied
                    arr1   == IF grow THEN Realloc(movies, allocated) ELSE movies
                    insert_index == InsertIndex(arr1, movie_count)
                    target == IF insert_index # 0 - 1 THEN insert_index
                              ELSE movie_count
                    new_movie == CreateMovie(title, director, atoi(year_str),
                                             nextId, garbage, mallocOK)
                    scan_fault ==
                        IF movie_count = 0 THEN "none"
                        ELSE IF alloc1 = 0 THEN "null_deref"
                        ELSE IF \E i \in 0..(movie_count - 1) : arr1[i] = UNINIT
                        THEN "uninit_read"
                        ELSE "none"
                    write_fault ==
                        IF new_movie # NULL /\ target >= alloc1
                        THEN "oob_write" ELSE "none"
                    f == IF scan_fault # "none" THEN scan_fault ELSE write_fault
                IN  /\ ValidName(title)
                    /\ ValidName(director)
                    /\ ValidYear(year_str)
                    /\ movie_capacity' = cap1
                    /\ allocated' = alloc1
                    /\ fault' = f
                    /\ IF f # "none"
                       THEN /\ pc' = "undefined"
                            /\ movies' = arr1
                            /\ UNCHANGED << movie_count, data_changed, nextId >>
                       ELSE /\ pc' = "menu"
                            /\ data_changed' = TRUE
                            /\ movies' = AddStore(arr1, movie_count,
                                                  new_movie).movies
                            /\ movie_count' = AddStore(arr1, movie_count,
                                                       new_movie).count
                            /\ nextId' = IF new_movie # NULL THEN nextId + 1
                                         ELSE nextId
    /\ UNCHANGED << api, freed >>

MenuAdd ==
    \E title \in AddTitles, director \in AddDirectors, year_str \in AddYears,
       garbage \in UninitRatings :
        AddEntry(title, director, year_str, TRUE, TRUE, garbage)

\* the same with realloc failing in resize_entries
MenuAddNoMemory ==
    /\ movie_count = movie_capacity
    /\ \E title \in AddTitles, director \in AddDirectors, year_str \in AddYears,
          garbage \in UninitRatings :
           AddEntry(title, director, year_str, FALSE, TRUE, garbage)

\* the same with malloc or strdup failing in create_movie
MenuAddNoRecord ==
    \E title \in AddTitles, director \in AddDirectors, year_str \in AddYears,
       garbage \in UninitRatings :
        AddEntry(title, director, year_str, TRUE, FALSE, garbage)

(***************************************************************************)
(* delete_movie and handle_deletion.                                       *)
(***************************************************************************)
\* DeleteValid as it would be without the test for a slot already emptied
DeleteValidAnySlot(arr, n, index) ==
    ~(index < 0 \/ index >= n)

\* movie.c:193: the index names a record of the array
DeleteValid(arr, n, index) ==
    ~(index < 0 \/ index >= n \/ arr[index] = NULL)

\* DeleteConfirmed as it would be without the loop that moves the slots up
DeleteConfirmedNoShift(arr, n, index) ==
    [movies |-> [i \in DOMAIN arr |->
                    IF i = index \/ i = n - 1 THEN NULL ELSE arr[i]],
     count |-> n - 1]

\* DeleteConfirmed as it would be without (*movies)[*count - 1] = NULL
DeleteConfirmedKeepsLast(arr, n, index) ==
    [movies |-> [i \in DOMAIN arr |->
                    IF i >= index /\ i < n - 1 THEN arr[i + 1] ELSE arr[i]],
     count |-> n - 1]

\* movie.c:209-220: the record is released, the slots after it move up by
\* one, the last slot is cleared and the count decremented
DeleteConfirmed(arr, n, index) ==
    [movies |-> [i \in DOMAIN arr |->
                    IF i >= index /\ i < n - 1 THEN arr[i + 1]
                    ELSE IF i = n - 1 THEN NULL
                    ELSE arr[i]],
     count |-> n - 1]

\* DeleteMovie as it would be if any key answered the prompt with yes
DeleteMovieAnyKey(arr, n, index, ch) ==
    IF ~DeleteValid(arr, n, index)
    THEN [movies |-> arr, count |-> n, asked |-> FALSE]
    ELSE [movies |-> DeleteConfirmed(arr, n, index).movies,
          count |-> DeleteConfirmed(arr, n, index).count, asked |-> TRUE]

\* movie.c:191-233: delete_movie(&arr, &n, index) when the key read after the
\* prompt is ch; asked tells whether the prompt was shown at all
DeleteMovie(arr, n, index, ch) ==
    IF ~DeleteValid(arr, n, index)
    THEN [movies |-> arr, count |-> n, asked |-> FALSE]
    ELSE IF ch = "y" \/ ch = "Y"
    THEN [movies |-> DeleteConfirmed(arr, n, index).movies,
          count |-> DeleteConfirmed(arr, n, index).count, asked |-> TRUE]
    ELSE [movies |-> arr, count |-> n, asked |-> TRUE]

\* the blocks malloc and strdup returned for a record (movie.c:50, 57, 65)
RecordBlocks(m) ==
    { << m.id, "title" >>, << m.id, "director" >>, << m.id, "movie" >> }

\* DeleteFreed as it would be if the strings were left to the structure's free
DeleteFreedStructOnly(arr, n, index, ch) ==
    IF DeleteValid(arr, n, index) /\ (ch = "y" \/ ch = "Y")
    THEN SetToBag({ << arr[index].id, "movie" >> })
    ELSE EmptyBag

\* movie.c:209-211: what a call of delete_movie passes to free
DeleteFreed(arr, n, index, ch) ==
    IF DeleteValid(arr, n, index) /\ (ch = "y" \/ ch = "Y")
    THEN SetToBag(RecordBlocks(arr[index]))
    ELSE EmptyBag

\* movie.c:255-267: what a call of handle_deletion passes to free
HandleDeletionFreed(arr, n, selected_index, ch) ==
    IF selected_index < 0 \/ selected_index >= n
    THEN EmptyBag
    ELSE DeleteFreed(arr, n, selected_index, ch)

\* movie.c:255-267: handle_deletion passes a selection inside [0, *count) on
HandleDeletion(arr, n, selected_index, ch) ==
    IF selected_index < 0 \/ selected_index >= n
    THEN [movies |-> arr, count |-> n, asked |-> FALSE]
    ELSE DeleteMovie(arr, n, selected_index, ch)

(***************************************************************************)
(* main(): the "display movies" menu entry and display_movie_list_ui.      *)
(***************************************************************************)
\* main.c:193-205, ui.c:263-270: an empty catalog only shows a popup, a NULL
\* array returns at once, otherwise the list view opens on a copy of the count
MenuDisplay ==
    /\ pc = "menu"
    /\ IF movie_count = 0 \/ allocated = 0
       THEN /\ data_changed' = TRUE
            /\ UNCHANGED << pc, count, current_highlight, current_start >>
       ELSE /\ pc' = "list"
            /\ count' = movie_count
            /\ current_highlight' = 0
            /\ current_start' = 0
            /\ UNCHANGED data_changed
    /\ UNCHANGED << movies, allocated, movie_count, movie_capacity, rate_index,
                    file, nextId, fault, ops >>
    /\ UNCHANGED << api, freed >>

\* ui.c:304-308: the slots the loop that draws the rows reads
RenderReads(n, start) ==
    { i + start : i \in { j \in 0..(display_count - 1) : j + start < n } }

\* RateReads as it would be without the test of the index against count
RateReadsUnchecked(n, highlight, start) ==
    IF n > 0 THEN { highlight + start } ELSE { }

\* ui.c:351-355: the slot 'r' reads to pass its record to rate_movie
RateReads(n, highlight, start) ==
    IF n > 0 /\ (highlight + start) < n THEN { highlight + start } ELSE { }

\* movie.c:193-219: the slots delete_movie reads: the one at index, when index
\* is inside [0, n), and after a yes those the loop moves up
DeleteMovieReads(arr, n, index, ch) ==
    IF index < 0 \/ index >= n THEN { }
    ELSE IF arr[index] = NULL THEN { index }
    ELSE IF ch = "y" \/ ch = "Y"
    THEN { index } \cup { i + 1 : i \in index..(n - 2) }
    ELSE { index }

\* ui.c:357-360 and movie.c:255-264: the slots 'd' reads when the key read
\* after the prompt is ch
DeleteReads(arr, n, highlight, start, ch) ==
    IF n > 0 /\ highlight < n
    THEN IF highlight + start < 0 \/ highlight + start >= n THEN { }
         ELSE DeleteMovieReads(arr, n, highlight + start, ch)
    ELSE { }

\* ui.c:331-340
KeyUp ==
    /\ pc = "list"
    /\ IF current_highlight > 0
       THEN /\ current_highlight' = current_highlight - 1
            /\ UNCHANGED current_start
       ELSE IF current_start > 0
       THEN /\ current_start' = current_start - 1
            /\ UNCHANGED current_highlight
       ELSE UNCHANGED << current_highlight, current_start >>
    /\ UNCHANGED << pc, movies, allocated, movie_count, movie_capacity,
                    data_changed, count, rate_index, file, nextId, fault, ops >>
    /\ UNCHANGED << api, freed >>

\* ui.c:341-350
KeyDown ==
    /\ pc = "list"
    /\ IF current_highlight < display_count - 1
          /\ (current_highlight + current_start) < count - 1
       THEN /\ current_highlight' = current_highlight + 1
            /\ UNCHANGED current_start
       ELSE IF (current_start + display_count) < count
       THEN /\ current_start' = current_start + 1
            /\ UNCHANGED current_highlight
       ELSE UNCHANGED << current_highlight, current_start >>
    /\ UNCHANGED << pc, movies, allocated, movie_count, movie_capacity,
                    data_changed, count, rate_index, file, nextId, fault, ops >>
    /\ UNCHANGED << api, freed >>

\* ui.c:361-373: the selection after handle_deletion returned, for the count n
\* it left
AdjustSelection(n, highlight, start) ==
    LET h1 == IF highlight >= n THEN n - 1 ELSE highlight
        s1 == IF h1 < start THEN h1 ELSE start
    IN  IF n = 0 THEN [highlight |-> 0, start |-> 0]
        ELSE [highlight |-> h1, start |-> s1]

\* ui.c:357-379, up to the prompt of delete_movie: with nothing to delete or
\* an index delete_movie rejects the key is done with, otherwise the view
\* waits for the answer
KeyDelete ==
    /\ pc = "list"
    /\ ops > 0
    /\ ops' = ops - 1
    /\ IF count > 0 /\ current_highlight < count
       THEN LET r == HandleDeletion(movies, count,
                                    current_highlight + current_start, "n")
            IN  IF r.asked
                THEN /\ pc' = "confirm"
                     /\ UNCHANGED << current_highlight, current_start >>
                ELSE LET a == AdjustSelection(count, current_highlight,
                                              current_start)
                     IN  /\ pc' = "list"
                         /\ current_highlight' = a.highlight
                         /\ current_start' = a.start
       ELSE UNCHANGED << pc, current_highlight, current_start >>
    /\ UNCHANGED << movies, allocated, movie_count, movie_capacity,
                    data_changed, count, rate_index, file, nextId, fault >>
    /\ UNCHANGED << api, freed >>

\* movie.c:204-232 and ui.c:361-373: the answer to the prompt
KeyConfirm(ch) ==
    /\ pc = "confirm"
    /\ LET r == HandleDeletion(movies, count,
                               current_highlight + current_start, ch)
           a == AdjustSelection(r.count, current_highlight, current_start)
       IN  /\ movies' = r.movies
           /\ count' = r.count
           /\ current_highlight' = a.highlight
           /\ current_start' = a.start
    /\ freed' = freed (+) HandleDeletionFreed(movies, count,
                                              current_highlight + current_start, ch)
    /\ pc' = "list"
    /\ UNCHANGED << allocated, movie_count, movie_capacity, data_changed,
                    rate_index, file, nextId, fault, ops >>
    /\ UNCHANGED api

Confirm == \E ch \in ConfirmKeys : KeyConfirm(ch)

\* ui.c:351-356 and movie.c:132-136: 'r' on a row with a record starts
\* rate_movie, which prompts
KeyRate ==
    /\ pc = "list"
    /\ ops > 0
    /\ ops' = ops - 1
    /\ IF count > 0 /\ (current_highlight + current_start) < count
          /\ movies[current_highlight + current_start] # NULL
       THEN /\ pc' = "rate"
            /\ rate_index' = current_highlight + current_start
       ELSE UNCHANGED << pc, rate_index >>
    /\ UNCHANGED << movies, allocated, movie_count, movie_capacity,
                    data_changed, count, current_highlight, current_start,
                    file, nextId, fault >>
    /\ UNCHANGED << api, freed >>

\* movie.c:148: ch >= '1' && ch <= '5'
RatingKey(ch) == ch \in { "1", "2", "3", "4", "5" }

\* RateStore as it would be if the rating were stored in every record
RateStoreAll(arr, index, ch) ==
    [i \in DOMAIN arr |->
        IF IsMovie(arr[i]) THEN [arr[i] EXCEPT !.rating = 10 * DigitVal(ch)]
        ELSE arr[i]]

\* movie.c:150-151: movie->rating = ch - '0', for the record of slot index
RateStore(arr, index, ch) ==
    [arr EXCEPT ![index].rating = 10 * DigitVal(ch)]

\* movie.c:142-156: a key '1'..'5' is stored as the rating and ends the call;
\* any other key brings the popup up
RateKey(ch) ==
    /\ pc = "rate"
    /\ IF RatingKey(ch)
       THEN /\ movies' = RateStore(movies, rate_index, ch)
            /\ pc' = "list"
            /\ rate_index' = 0
       ELSE /\ pc' = "rate_popup"
            /\ UNCHANGED << movies, rate_index >>
    /\ UNCHANGED << allocated, movie_count, movie_capacity, data_changed, count,
                    current_highlight, current_start, file, nextId, fault, ops >>
    /\ UNCHANGED << api, freed >>

Rate == \E ch \in RateKeys : RateKey(ch)

\* movie.c:156 and popup.c:159: the popup stays until a key is read, which
\* is dropped
PopupKey(ch) ==
    /\ pc = "rate_popup"
    /\ pc' = "rate_flush"
    /\ UNCHANGED << movies, allocated, movie_count, movie_capacity,
                    data_changed, count, current_highlight, current_start,
                    rate_index, file, nextId, fault, ops >>
    /\ UNCHANGED << api, freed >>

RatePopup == \E ch \in RateKeys : PopupKey(ch)

\* movie.c:158: while ((ch = getch()) != '\n' && ch != EOF);
FlushKey(ch) ==
    /\ pc = "rate_flush"
    /\ pc' = IF ch = "\n" \/ ch = EOF THEN "rate" ELSE "rate_flush"
    /\ UNCHANGED << movies, allocated, movie_count, movie_capacity,
                    data_changed, count, current_highlight, current_start,
                    rate_index, file, nextId, fault, ops >>
    /\ UNCHANGED << api, freed >>

RateFlush == \E ch \in RateKeys : FlushKey(ch)

\* ui.c:380-383 and main.c:204: 'q' returns to main(), which keeps its own
\* count; the view's variables are gone
KeyQuit ==
    /\ pc = "list"
    /\ pc' = "menu"
    /\ data_changed' = TRUE
    /\ count' = 0
    /\ current_highlight' = 0
    /\ current_start' = 0
    /\ UNCHANGED << movies, allocated, movie_count, movie_capacity, rate_index,
                    file, nextId, fault, ops >>
    /\ UNCHANGED << api, freed >>

(***************************************************************************)
(* main(): the other menu entries.                                         *)
(***************************************************************************)
\* main.c:208-214: the TV series entries do nothing
MenuTvSeries ==
    /\ pc = "menu"
    /\ UNCHANGED vars

\* SaveMoviesToFile as it would be without the save after the loop: the file
\* is written only if data_changed
SaveMoviesIfChanged ==
    IF ~data_changed
    THEN /\ file' = file
         /\ pc' = "done"
         /\ UNCHANGED fault
    ELSE IF SaveReadable(movies, allocated, movie_count)
    THEN /\ file' = SaveText(movies, 0, movie_count)
         /\ pc' = "done"
         /\ UNCHANGED fault
    ELSE /\ file' = << >>
         /\ pc' = "undefined"
         /\ fault' = IF allocated = 0 THEN "null_deref" ELSE "uninit_read"

\* main.c:216-227: MENU_EXIT saves if data_changed, leaves the loop and saves
SaveMoviesToFile ==
    IF SaveReadable(movies, allocated, movie_count)
    THEN /\ file' = SaveText(movies, 0, movie_count)
         /\ pc' = "done"
         /\ UNCHANGED fault
    ELSE /\ file' = << >>
         /\ pc' = "undefined"
         /\ fault' = IF allocated = 0 THEN "null_deref" ELSE "uninit_read"

\* main.c:230-233: free(movies[i]) for the slots i..n-1; free(NULL) does
\* nothing
RECURSIVE ExitFreed(_, _, _)
ExitFreed(arr, i, n) ==
    IF i >= n THEN EmptyBag
    ELSE (IF IsMovie(arr[i]) THEN SetToBag({ << arr[i].id, "movie" >> })
          ELSE EmptyBag) (+) ExitFreed(arr, i + 1, n)

MenuExit ==
    /\ pc = "menu"
    /\ SaveMoviesToFile
    /\ freed' = IF SaveReadable(movies, allocated, movie_count)
                THEN freed (+) ExitFreed(movies, 0, movie_count)
                ELSE freed
    /\ UNCHANGED << movies, allocated, movie_count, movie_capacity,
                    data_changed, count, current_highlight, current_start,
                    rate_index, nextId, ops >>
    /\ UNCHANGED api

Next ==
    \/ Startup
    \/ MenuAdd
    \/ MenuDisplay
    \/ KeyUp
    \/ KeyDown
    \/ KeyDelete
    \/ Confirm
    \/ KeyRate
    \/ Rate
    \/ RatePopup
    \/ RateFlush
    \/ KeyQuit
    \/ MenuTvSeries
    \/ MenuExit

Spec == Init /\ [][Next]_vars

\* the program when realloc may fail
NextNoMemory == Next \/ StartupNoMemory \/ MenuAddNoMemory \/ MenuAddNoRecord

SpecNoMemory == Init /\ [][NextNoMemory]_vars

TypeOK ==
    /\ pc \in {"start", "menu", "list", "confirm", "rate", "rate_popup",
               "rate_flush", "done", "undefined", "api"}
    /\ movie_count \in 0..MaxSlots
    /\ count \in 0..MaxSlots
    /\ fault \in {"none", "null_deref", "uninit_read", "oob_write"}
    /\ (pc = "undefined") = (fault # "none")

(***************************************************************************)
(* create_movie and update_movie called directly, on any arguments.        *)
(***************************************************************************)
ApiTitles == { NULLSTR, << >>, << "a" >>, << "b" >> }
ApiDirectors == { NULLSTR, << >>, << "d" >> }
ApiYears == { 0 - 5, 0, 5, 1800, 1801, CurrentYear + 1 }
\* the allocation of create_movie that fails: none, malloc of the Movie,
\* strdup of the title, strdup of the director
CreateFails == { "none", "movie", "title", "director" }

\* the blocks a Movie and its strings occupy
Blocks(m) ==
    IF m = NULL THEN 0
    ELSE 1 + (IF m.title # NULLSTR THEN 1 ELSE 0)
           + (IF m.director # NULLSTR THEN 1 ELSE 0)

\* movie.c:45-75: the blocks create_movie has allocated and not freed when
\* it returns
CreateMovieLive(title, director, year, fail) ==
    IF title = NULLSTR \/ director = NULLSTR \/ year <= 1800 THEN 0
    ELSE IF fail = "movie" THEN 0
    ELSE IF fail = "title" THEN 1 - 1
    ELSE IF fail = "director" THEN 2 - 2
    ELSE 3

\* movie.c:80-95: only NULL pointers and new_year <= 0 are refused; then both
\* strings are freed and replaced by what strdup returns, NULL included, the
\* year is assigned and MOVIE_SUCCESS returned
UpdateMovie(m, new_title, new_director, new_year, titleOK, directorOK) ==
    IF m = NULL \/ new_title = NULLSTR \/ new_director = NULLSTR \/ new_year <= 0
    THEN [ret |-> "MOVIE_ERROR_NULL_POINTER", movie |-> m]
    ELSE [ret |-> "MOVIE_SUCCESS",
          movie |-> [m EXCEPT !.title = IF titleOK THEN new_title ELSE NULLSTR,
                              !.director = IF directorOK THEN new_director
                                           ELSE NULLSTR,
                              !.year = new_year]]

\* movie.c:87-91: the blocks update_movie allocates less those it frees
UpdateMovieLive(m, ret, titleOK, directorOK) ==
    IF ret # "MOVIE_SUCCESS" THEN 0
    ELSE (IF titleOK THEN 1 ELSE 0) + (IF directorOK THEN 1 ELSE 0)
             - (Blocks(m) - 1)

InitRecord ==
    /\ pc = "api"
    /\ movies = FreshCatalog.movies
    /\ allocated = FreshCatalog.allocated
    /\ movie_count = FreshCatalog.count
    /\ movie_capacity = FreshCatalog.capacity
    /\ data_changed = FALSE
    /\ count = 0
    /\ current_highlight = 0
    /\ current_start = 0
    /\ rate_index = 0
    /\ file = NoFile
    /\ nextId = FreshCatalog.nextId
    /\ fault = "none"
    /\ ops = MaxCalls
    /\ record = NULL
    /\ arg = NoCall
    /\ heap = 0
    /\ freed = EmptyBag

program == << pc, movies, allocated, movie_count, movie_capacity, data_changed,
             count, current_highlight, current_start, rate_index, file, fault,
             freed >>

\* record = create_movie(title, director, year)
CallCreate ==
    /\ pc = "api"
    /\ ops > 0
    /\ record = NULL
    /\ \E title \in ApiTitles, director \in ApiDirectors, year \in ApiYears,
          fail \in CreateFails, garbage \in UninitRatings :
           LET new_movie == CreateMovie(title, director, year, nextId, garbage,
                                        fail = "none")
           IN  /\ record' = new_movie
               /\ heap' = heap + CreateMovieLive(title, director, year, fail)
               /\ nextId' = IF new_movie # NULL THEN nextId + 1 ELSE nextId
               /\ arg' = [fn |-> "create_movie", title |-> title,
                          director |-> director, year |-> year,
                          failed |-> (fail # "none"), before |-> record,
                          ret |-> IF new_movie # NULL THEN "Movie" ELSE "NULL"]
    /\ ops' = ops - 1
    /\ UNCHANGED program

\* update_movie(record, new_title, new_director, new_year)
CallUpdate ==
    /\ pc = "api"
    /\ ops > 0
    /\ \E new_title \in ApiTitles, new_director \in ApiDirectors,
          new_year \in ApiYears, titleOK \in BOOLEAN, directorOK \in BOOLEAN :
           LET r == UpdateMovie(record, new_title, new_director, new_year,
                                titleOK, directorOK)
           IN  /\ record' = r.movie
               /\ heap' = heap + UpdateMovieLive(record, r.ret, titleOK, directorOK)
               /\ arg' = [fn |-> "update_movie", title |-> new_title,
                          director |-> new_director, year |-> new_year,
                          failed |-> (~titleOK \/ ~directorOK),
                          before |-> record, ret |-> r.ret]
    /\ ops' = ops - 1
    /\ UNCHANGED << program, nextId >>

\* movie.c:209-211: the record is released, strings first
CallFree ==
    /\ pc = "api"
    /\ record # NULL
    /\ record' = NULL
    /\ heap' = heap - Blocks(record)
    /\ arg' = [fn |-> "free", before |-> record]
    /\ UNCHANGED << program, nextId, ops >>

NextRecord == CallCreate \/ CallUpdate \/ CallFree

SpecRecord == InitRecord /\ [][NextRecord]_vars

(***************************************************************************)
(* search_tv_series and sort_tv_series, the search and the sort by title   *)
(* the repository implements (search_movie and sort_movies are declared in *)
(* movie.h and defined nowhere), called on any array.                      *)
(***************************************************************************)
\* the characters of the titles below, in the order of their codes
Ascii == << "A", "M", "Z", "a", "e", "g", "l", "n", "o", "p" >>

Code(c) == CHOOSE i \in 1..Len(Ascii) : Ascii[i] = c

\* strcmp: 0 for equal strings, otherwise the sign of the difference of the
\* first characters that differ, the end of a string counting as less
RECURSIVE Strcmp(_, _)
Strcmp(s1, s2) ==
    IF s1 = << >> /\ s2 = << >> THEN 0
    ELSE IF s1 = << >> THEN 0 - 1
    ELSE IF s2 = << >> THEN 1
    ELSE IF Head(s1) = Head(s2) THEN Strcmp(Tail(s1), Tail(s2))
    ELSE Code(Head(s1)) - Code(Head(s2))

SeriesTitles ==
    { << "Z", "o", "o" >>, << "A", "p", "p", "l", "e" >>,
      << "M", "a", "n", "g", "o" >>, << "a", "p", "p", "l", "e" >> }

\* a title no series has
OtherTitle == << "Z", "o" >>

\* the arrays of TV_Series pointers: each slot NULL or a series of its own
SeriesArrays ==
    { [i \in 0..(MaxSeries - 1) |->
          IF t[i] = NULLSTR THEN NULL
          ELSE [kind |-> "series", id |-> i + 1, title |-> t[i]]] :
      t \in [0..(MaxSeries - 1) -> SeriesTitles \cup { NULLSTR }] }

\* tv_series.c:64-69: the loop from index i on; series[i]->title is read
\* whatever series[i] is
RECURSIVE SearchFrom(_, _, _, _)
SearchFrom(series, n, title, i) ==
    IF i >= n THEN [ret |-> NULL, fault |-> "none"]
    ELSE IF series[i] = NULL THEN [ret |-> NULL, fault |-> "null_deref"]
    ELSE IF Strcmp(series[i].title, title) = 0
    THEN [ret |-> series[i], fault |-> "none"]
    ELSE SearchFrom(series, n, title, i + 1)

\* tv_series.c:63-70
SearchTvSeries(series, n, title) == SearchFrom(series, n, title, 0)

\* SortPass as it would be with the comparison turned round
RECURSIVE SortPassDescending(_, _, _, _)
SortPassDescending(series, n, i, swapped) ==
    IF i >= n - 1
    THEN [series |-> series, swapped |-> swapped, fault |-> "none"]
    ELSE IF series[i] = NULL \/ series[i + 1] = NULL
    THEN [series |-> series, swapped |-> swapped, fault |-> "null_deref"]
    ELSE IF Strcmp(series[i].title, series[i + 1].title) < 0
    THEN SortPassDescending([series EXCEPT ![i] = series[i + 1],
                                           ![i + 1] = series[i]],
                            n, i + 1, TRUE)
    ELSE SortPassDescending(series, n, i + 1, swapped)

\* tv_series.c:77-84: one pass of the for loop from index i on; both titles
\* are read whatever the slots hold
RECURSIVE SortPass(_, _, _, _)
SortPass(series, n, i, swapped) ==
    IF i >= n - 1
    THEN [series |-> series, swapped |-> swapped, fault |-> "none"]
    ELSE IF series[i] = NULL \/ series[i + 1] = NULL
    THEN [series |-> series, swapped |-> swapped, fault |-> "null_deref"]
    ELSE IF Strcmp(series[i].title, series[i + 1].title) > 0
    THEN SortPass([series EXCEPT ![i] = series[i + 1], ![i + 1] = series[i]],
                  n, i + 1, TRUE)
    ELSE SortPass(series, n, i + 1, swapped)

\* tv_series.c:75-85: do { a pass } while (swapped); passes counts the passes
RECURSIVE SortLoop(_, _, _)
SortLoop(series, n, passes) ==
    LET p == SortPass(series, n, 0, FALSE)
    IN  IF p.fault = "none" /\ p.swapped
        THEN SortLoop(p.series, n, passes + 1)
        ELSE [series |-> p.series, passes |-> passes + 1, fault |-> p.fault]

\* tv_series.c:73-86
SortTvSeries(series, n) == SortLoop(series, n, 0)

InitSeries ==
    /\ pc = "api"
    /\ movies = FreshCatalog.movies
    /\ allocated = FreshCatalog.allocated
    /\ movie_count = FreshCatalog.count
    /\ movie_capacity = FreshCatalog.capacity
    /\ data_changed = FALSE
    /\ count = 0
    /\ current_highlight = 0
    /\ current_start = 0
    /\ rate_index = 0
    /\ file = NoFile
    /\ nextId = FreshCatalog.nextId
    /\ fault = "none"
    /\ ops = MaxCalls
    /\ record = NULL
    /\ \E series \in SeriesArrays, n \in 0..MaxSeries :
           arg = [fn |-> "none", series |-> series, count |-> n]
    /\ heap = 0
    /\ freed = EmptyBag

\* what the calls below leave alone
others == << movies, allocated, movie_count, movie_capacity, data_changed,
            count, current_highlight, current_start, rate_index, file, nextId,
            record, heap, freed >>

\* record = search_tv_series(series, count, title)
CallSearch ==
    /\ pc = "api"
    /\ ops > 0
    /\ \E title \in SeriesTitles \cup { OtherTitle } :
           LET r == SearchTvSeries(arg.series, arg.count, title)
           IN  /\ arg' = [fn |-> "search_tv_series", series |-> arg.series,
                          count |-> arg.count, before |-> arg.series,
                          title |-> title, ret |-> r.ret]
               /\ fault' = r.fault
               /\ pc' = IF r.fault = "none" THEN "api" ELSE "undefined"
    /\ ops' = ops - 1
    /\ UNCHANGED others

\* sort_tv_series(series, count)
CallSort ==
    /\ pc = "api"
    /\ ops > 0
    /\ LET r == SortTvSeries(arg.series, arg.count)
       IN  /\ arg' = [fn |-> "sort_tv_series", series |-> r.series,
                      count |-> arg.count, before |-> arg.series,
                      passes |-> r.passes]
           /\ fault' = r.fault
           /\ pc' = IF r.fault = "none" THEN "api" ELSE "undefined"
    /\ ops' = ops - 1
    /\ UNCHANGED others

NextSeries == CallSearch \/ CallSort

SpecSeries == InitSeries /\ [][NextSeries]_vars

(***************************************************************************)
(* rate_movie called directly, on any record and any keys typed.           *)
(***************************************************************************)
\* the keys getch may return to rate_movie
RateInputKeys == { "3", "0", "\n" }

\* the sequences of at most k such keys
RECURSIVE KeySeqs(_)
KeySeqs(k) ==
    IF k = 0 THEN { << >> }
    ELSE LET shorter == KeySeqs(k - 1)
         IN  shorter \cup { keys \o << ch >> : keys \in shorter, ch \in RateInputKeys }

\* the records rate_movie may be handed: none, a record as create_movie makes
\* it, and that record after an update_movie whose strdup of the title failed
RateRecords ==
    LET created == { CreateMovie(<< "a" >>, << "d" >>, 1999, 1, garbage, TRUE) :
                        garbage \in UninitRatings }
    IN  { NULL } \cup created
            \cup { UpdateMovie(m, << "b" >>, << "d" >>, 1999, FALSE, TRUE).movie :
                        m \in created }

\* FlushLine as it would be if nothing were dropped after the popup
FlushLineNone(keys) ==
    [rest |-> keys, done |-> TRUE]

\* movie.c:158: the keys up to the first newline or EOF are dropped; done
\* tells whether that one was read, rest is what was typed after it
RECURSIVE FlushLine(_)
FlushLine(keys) ==
    IF keys = << >> THEN [rest |-> << >>, done |-> FALSE]
    ELSE IF Head(keys) = "\n" \/ Head(keys) = EOF
    THEN [rest |-> Tail(keys), done |-> TRUE]
    ELSE FlushLine(Tail(keys))

\* movie.c:142-160: the loop of rate_movie at a prompt, with keys still to be
\* read: a key '1'..'5' is stored and ends the call; after any other key the
\* popup takes one key (popup.c:159), the rest of the line is dropped and the
\* prompt is shown again.  returned is FALSE when the call still waits for a
\* key after the last one typed
RECURSIVE RateLoop(_, _, _)
RateLoop(m, keys, prompts) ==
    LET waiting == [movie |-> m, rest |-> << >>, returned |-> FALSE,
                    prompts |-> prompts + 1]
    IN  IF keys = << >> THEN waiting
        ELSE IF RatingKey(Head(keys))
        THEN [movie |-> RateStore([i \in { 0 } |-> m], 0, Head(keys))[0],
              rest |-> Tail(keys), returned |-> TRUE, prompts |-> prompts + 1]
        ELSE IF Tail(keys) = << >> THEN waiting
        ELSE LET f == FlushLine(Tail(Tail(keys)))
             IN  IF f.done THEN RateLoop(m, f.rest, prompts + 1) ELSE waiting

\* movie.c:130-164: rate_movie(m) when the keys typed are keys
RateMovie(m, keys) ==
    IF m = NULL \/ m.title = NULLSTR
    THEN [movie |-> m, rest |-> keys, returned |-> TRUE, prompts |-> 0]
    ELSE RateLoop(m, keys, 0)

InitRate ==
    /\ pc = "api"
    /\ movies = FreshCatalog.movies
    /\ allocated = FreshCatalog.allocated
    /\ movie_count = FreshCatalog.count
    /\ movie_capacity = FreshCatalog.capacity
    /\ data_changed = FALSE
    /\ count = 0
    /\ current_highlight = 0
    /\ current_start = 0
    /\ rate_index = 0
    /\ file = NoFile
    /\ nextId = FreshCatalog.nextId + 1
    /\ fault = "none"
    /\ ops = MaxCalls
    /\ record \in RateRecords
    /\ arg = NoCall
    /\ heap = 0
    /\ freed = EmptyBag

\* rate_movie(record), the user typing keys
CallRate ==
    /\ pc = "api"
    /\ ops > 0
    /\ \E keys \in KeySeqs(MaxKeys) :
           LET r == RateMovie(record, keys)
           IN  /\ record' = r.movie
               /\ arg' = [fn |-> "rate_movie", keys |-> keys, before |-> record,
                          read |-> Len(keys) - Len(r.rest),
                          returned |-> r.returned, prompts |-> r.prompts]
    /\ ops' = ops - 1
    /\ UNCHANGED << program, nextId, heap >>

NextRate == CallRate

SpecRate == InitRate /\ [][NextRate]_vars

(***************************************************************************)
(* main_menu, on any keys typed.                                           *)
(***************************************************************************)
\* ui.h:9-17: MENU_MOVIE_ADD, MENU_MOVIE_DISPLAY, MENU_TV_SERIES_ADD,
\* MENU_TV_SERIES_DISPLAY, MENU_EXIT
MenuOption == 0..4

\* the keys wgetch may return to main_menu: the arrows, Enter (10), another
MenuKeys == { "KEY_UP", "KEY_DOWN", "\n", "q" }

\* the sequences of at most k such keys
RECURSIVE MenuKeySeqs(_)
MenuKeySeqs(k) ==
    IF k = 0 THEN { << >> }
    ELSE LET shorter == MenuKeySeqs(k - 1)
         IN  shorter \cup { keys \o << c >> : keys \in shorter, c \in MenuKeys }

\* MainMenuStep as it would be without the tests for the first and the last
\* entry
MainMenuStepNoWrap(highlight, c) ==
    IF c = "KEY_UP" THEN highlight - 1
    ELSE IF c = "KEY_DOWN" THEN highlight + 1
    ELSE highlight

\* ui.c:121-142: the highlight after key c
MainMenuStep(highlight, c) ==
    IF c = "KEY_UP" THEN (IF highlight = 1 THEN 5 ELSE highlight - 1)
    ELSE IF c = "KEY_DOWN" THEN (IF highlight = 5 THEN 1 ELSE highlight + 1)
    ELSE highlight

\* ui.c:135-137: choice after key c
MainMenuChoice(choice, highlight, c) ==
    IF c = "\n" THEN highlight ELSE choice

\* ui.c:117-150: the loop of main_menu with keys still to be read; trace
\* holds the highlight after each key read.  returned is FALSE when the
\* function still waits for a key after the last one typed
RECURSIVE MainMenuLoop(_, _, _, _)
MainMenuLoop(highlight, choice, keys, trace) ==
    IF keys = << >>
    THEN [returned |-> FALSE, ret |-> 0 - 1, highlight |-> highlight,
          trace |-> trace, rest |-> << >>]
    ELSE LET h == MainMenuStep(highlight, Head(keys))
             ch == MainMenuChoice(choice, highlight, Head(keys))
         IN  IF ch # 0
             THEN [returned |-> TRUE, ret |-> ch - 1, highlight |-> h,
                   trace |-> Append(trace, h), rest |-> Tail(keys)]
             ELSE MainMenuLoop(h, ch, Tail(keys), Append(trace, h))

\* ui.c:91-151: main_menu() when the keys typed are keys; highlight starts at
\* 1 and choice at 0
MainMenu(keys) == MainMenuLoop(1, 0, keys, << >>)

InitMenu ==
    /\ pc = "api"
    /\ movies = FreshCatalog.movies
    /\ allocated = FreshCatalog.allocated
    /\ movie_count = FreshCatalog.count
    /\ movie_capacity = FreshCatalog.capacity
    /\ data_changed = FALSE
    /\ count = 0
    /\ current_highlight = 0
    /\ current_start = 0
    /\ rate_index = 0
    /\ file = NoFile
    /\ nextId = FreshCatalog.nextId
    /\ fault = "none"
    /\ ops = MaxCalls
    /\ record = NULL
    /\ arg = NoCall
    /\ heap = 0
    /\ freed = EmptyBag

\* choice = main_menu(), the user typing keys
CallMainMenu ==
    /\ pc = "api"
    /\ ops > 0
    /\ \E keys \in MenuKeySeqs(MaxMenuKeys) :
           LET r == MainMenu(keys)
           IN  arg' = [fn |-> "main_menu", keys |-> keys,
                       read |-> Len(keys) - Len(r.rest), trace |-> r.trace,
                       returned |-> r.returned, ret |-> r.ret]
    /\ ops' = ops - 1
    /\ UNCHANGED << program, nextId, record, heap >>

NextMenu == CallMainMenu

SpecMenu == InitMenu /\ [][NextMenu]_vars

(***************************************************************************)
(* Properties.                                                             *)
(***************************************************************************)
\* the program waits for the next request of the user
BetweenOperations == pc \in {"menu", "list"}

\* the records in the non-NULL slots i..n-1 of arr, in slot order
RECURSIVE Occupied(_, _, _)
Occupied(arr, i, n) ==
    IF i >= n THEN << >>
    ELSE (IF IsMovie(arr[i]) THEN << arr[i] >> ELSE << >>)
             \o Occupied(arr, i + 1, n)

\* C1: Invariant A. Between any two user operations every index in
\* [0, movie_count) of the movies array holds a record: no NULL slot below
\* the count main() keeps is observable.
C1_NoGapBelowCount ==
    BetweenOperations =>
        \A i \in 0..(movie_count - 1) : IsMovie(movies[i])

\* C2: the count main() holds, which it passes to save and to the list
\* view, equals the number of non-empty slots of the movies array.
C2_CountIsOccupied ==
    BetweenOperations =>
        movie_count = Cardinality({i \in 0..(MaxSlots - 1) : IsMovie(movies[i])})

\* C3: a confirmed delete_movie at index i of an array of n = *count records
\* moves each record from position j in (i, n) to position j - 1, leaves the
\* positions below i untouched, sets slot n - 1 to NULL and decreases *count
\* by exactly 1.
C3_DeleteShifts ==
    [][ (pc = "confirm" /\ (count' # count \/ movies' # movies)) =>
            LET i == current_highlight + current_start
                n == count
            IN  /\ count' = n - 1
                /\ \A j \in 0..(MaxSlots - 1) :
                       /\ (j < i => movies'[j] = movies[j])
                       /\ (j > i /\ j < n => movies'[j - 1] = movies[j])
                       /\ (j = n - 1 => movies'[j] = NULL)
                /\ Occupied(movies', 0, n)
                       = Occupied([movies EXCEPT ![i] = NULL], 0, n) ]_vars

\* a record that was loaded second stands in slot 0 of the view after the
\* record before it was deleted
C3_Witness ==
    /\ pc = "list"
    /\ count = 1
    /\ movie_count = 2
    /\ IsMovie(movies[0])
    /\ movies[0].id = 2
    /\ movies[1] = NULL

\* the step is an add that stored a new record
AddStored == pc = "menu" /\ pc' = "menu" /\ nextId' = nextId + 1

\* C4: add places the new record in the lowest-indexed empty slot below the
\* count, if there is one, and leaves the count unchanged; otherwise it places
\* the record at index count and increments the count by 1. No other slot is
\* modified.
C4_AddPlacement ==
    [][ AddStored =>
            LET gaps == {i \in 0..(movie_count - 1) : movies[i] = NULL}
                slot == IF gaps # {} THEN Min(gaps) ELSE movie_count
            IN  /\ IsMovie(movies'[slot])
                /\ movies'[slot].id = nextId
                /\ movie_count' = IF gaps # {} THEN movie_count
                                  ELSE movie_count + 1
                /\ \A j \in 0..(MaxSlots - 1) :
                       j # slot => movies'[j] = movies[j] ]_vars

\* the record created second stands in slot 0, the gap a delete had left there
C4_Witness ==
    /\ pc = "menu"
    /\ movie_count = 1
    /\ IsMovie(movies[0])
    /\ movies[0].id = 2

\* C5: with allocation succeeding, count <= capacity in every reachable
\* state, no slot at an index >= capacity is ever written, the capacity only
\* changes by doubling, and it grows only when count = capacity.
C5_GrowthPolicy ==
    /\ [](movie_count <= movie_capacity)
    /\ [](\A i \in 0..(MaxSlots - 1) : i >= movie_capacity => movies[i] = UNINIT)
    /\ [][ movie_capacity' # movie_capacity =>
               /\ movie_capacity' = 2 * movie_capacity
               /\ (pc = "menu" => movie_count = movie_capacity)
               /\ (pc = "start" => movie_count' >= movie_capacity) ]_vars

\* ten records were loaded into the ten slots, and the add of an eleventh has
\* doubled the storage
C5_Witness ==
    /\ file = Repeat(GoodLine, InitCapacity)
    /\ movie_capacity = 2 * InitCapacity
    /\ movie_count = InitCapacity + 1
    /\ IsMovie(movies[InitCapacity])

\* the step is an add whose growth of the storage failed
AddGrowFailed ==
    /\ pc = "menu"
    /\ pc' = "menu"
    /\ ops' # ops
    /\ movie_count = movie_capacity
    /\ allocated' = allocated

\* C6: if resize_entries cannot obtain new storage during an add, the catalog
\* is left exactly as before the call: the capacity still equals the number
\* of slots allocated, the count and all slots are unchanged, and no later add
\* writes a slot outside the allocated storage.
C6_FailedGrowKeepsCatalog ==
    /\ [][ AddGrowFailed =>
               /\ movie_capacity' = movie_capacity
               /\ movie_capacity' = allocated'
               /\ movie_count' = movie_count
               /\ movies' = movies ]_vars
    /\ [](fault # "oob_write")

\* the selection of the list view does not name a record of the array
BadSelection ==
    \/ current_highlight + current_start >= count
    \/ movies[current_highlight + current_start] = NULL

\* C7: delete_movie called with index < 0, index >= *count or an empty slot at
\* index leaves the array, *count and every record unchanged and does not ask
\* for confirmation.
C7_InvalidDeleteIsNoOp ==
    /\ [](\A index \in (0 - 1)..MaxSlots, ch \in ConfirmKeys :
              (index < 0 \/ index >= count \/ movies[index] = NULL) =>
                  DeleteMovie(movies, count, index, ch)
                      = [movies |-> movies, count |-> count, asked |-> FALSE])
    /\ [][ (pc = "list" /\ BadSelection) =>
               /\ pc' # "confirm"
               /\ movies' = movies
               /\ (pc' = "list" => count' = count) ]_vars

\* the list view shows a row whose slot a delete has emptied, and the user has
\* asked for something on it
C7_Witness ==
    /\ pc = "list"
    /\ count > 0
    /\ current_highlight + current_start < count
    /\ movies[current_highlight + current_start] = NULL
    /\ ops = 0

\* the lines of a text, each without the newline that ends it
RECURSIVE SplitLines(_)
SplitLines(f) ==
    LET nl == {i \in 1..Len(f) : f[i] = "\n"}
    IN  IF f = << >> THEN << >>
        ELSE IF nl = {} THEN << f >>
        ELSE << SubSeq(f, 1, Min(nl) - 1) >>
                 \o SplitLines(SubSeq(f, Min(nl) + 1, Len(f)))

\* the text between the '|' characters of a line, empty pieces included
RECURSIVE Fields(_)
Fields(line) ==
    LET ds == {i \in 1..Len(line) : line[i] = "|"}
    IN  IF ds = {} THEN << line >>
        ELSE << SubSeq(line, 1, Min(ds) - 1) >>
                 \o Fields(SubSeq(line, Min(ds) + 1, Len(line)))

NonEmpty(str) == str # << >>

\* the non-empty tokens of a line
Tokens(line) == SelectSeq(Fields(line), NonEmpty)

NoPipe(str) == \A i \in 1..Len(str) : str[i] # "|"

\* C8: save_movies_to_file replaces the whole content of the file with exactly
\* one line per non-empty slot in [0, count), in ascending slot order, each
\* line being title|director|year|rating; empty slots give no line and a
\* deleted record does not appear.
C8_SavedFile ==
    pc = "done" =>
        LET occ   == Occupied(movies, 0, movie_count)
            lines == SplitLines(file)
        IN  /\ Len(lines) = Len(occ)
            /\ (file # << >> => file[Len(file)] = "\n")
            /\ \A j \in 1..Len(occ) :
                   lines[j] = occ[j].title \o << "|" >> \o occ[j].director
                                  \o << "|" >> \o IntToStr(occ[j].year)
                                  \o << "|" >> \o FloatToStr(occ[j].rating)

\* the file was saved from a catalog with a rated record and a slot a delete
\* had emptied
C8_Witness ==
    /\ pc = "done"
    /\ movie_count = 2
    /\ IsMovie(movies[0])
    /\ movies[0].rating = 50
    /\ movies[1] = NULL
    /\ file # << >>

\* the titles and directors of the saved records have no '|'
SavedWithoutPipe ==
    \A i \in 0..(movie_count - 1) :
        IsMovie(movies[i]) => NoPipe(movies[i].title) /\ NoPipe(movies[i].director)

\* C9: save followed by load into an empty catalog yields the same number of
\* records, with the same title, director and year in the same order as the
\* occupied slots that were saved, when no title or director contains '|'.
C9_RoundTrip ==
    (pc = "done" /\ SavedWithoutPipe) =>
        \A garbage \in UninitRatings :
            LET occ == Occupied(movies, 0, movie_count)
                st  == LoadResult(FreshCatalog, file, TRUE, garbage)
            IN  /\ st.fault = "none"
                /\ st.count = Len(occ)
                /\ \A j \in 1..Len(occ) :
                       /\ IsMovie(st.movies[j - 1])
                       /\ st.movies[j - 1].title = occ[j].title
                       /\ st.movies[j - 1].director = occ[j].director
                       /\ st.movies[j - 1].year = occ[j].year

\* two records with different titles were saved, and a slot a delete had
\* emptied was skipped
C9_Witness ==
    /\ pc = "done"
    /\ SavedWithoutPipe
    /\ movie_count = 3
    /\ IsMovie(movies[0])
    /\ IsMovie(movies[1])
    /\ movies[2] = NULL
    /\ movies[0].title # movies[1].title

\* the line yields three non-empty tokens and its year token parses to an
\* integer > 1800
Accepted(line) ==
    Len(Tokens(line)) >= 3 /\ atoi(Tokens(line)[3]) > 1800

\* the records load has put into slots 0.. are those of the lines acc, in order
LoadedFrom(acc) ==
    /\ pc' = "menu"
    /\ movie_count' = Len(acc)
    /\ \A j \in 1..Len(acc) :
           /\ IsMovie(movies'[j - 1])
           /\ movies'[j - 1].title = Tokens(acc[j])[1]
           /\ movies'[j - 1].director = Tokens(acc[j])[2]
           /\ movies'[j - 1].year = atoi(Tokens(acc[j])[3])
    /\ \A i \in 0..(MaxSlots - 1) : i >= Len(acc) => movies'[i] = movies[i]

RECURSIVE Chop(_, _)
Chop(str, k) ==
    IF Len(str) <= k THEN << str >>
    ELSE << SubSeq(str, 1, k) >> \o Chop(SubSeq(str, k + 1, Len(str)), k)

\* a text without the newline it may end with
StripNewline(str) ==
    IF str # << >> /\ str[Len(str)] = "\n" THEN SubSeq(str, 1, Len(str) - 1)
    ELSE str

\* the pieces load reads a text in: each line with its newline, a line of
\* LineBuf characters or more in pieces of LineBuf - 1 characters
RECURSIVE Pieces(_)
Pieces(f) ==
    LET nl == {i \in 1..Len(f) : f[i] = "\n"}
        n  == IF nl = {} THEN Len(f) ELSE Min(nl)
    IN  IF f = << >> THEN << >>
        ELSE Chop(SubSeq(f, 1, n), LineBuf - 1) \o Pieces(SubSeq(f, n + 1, Len(f)))

AcceptedPiece(piece) == Accepted(StripNewline(piece))

RECURSIVE StripAll(_)
StripAll(pieces) ==
    IF pieces = << >> THEN << >>
    ELSE << StripNewline(Head(pieces)) >> \o StripAll(Tail(pieces))

Created(i) == IsMovie(movies'[i]) /\ movies'[i].id >= nextId

\* C11: every record created by create_movie, through the add of the menu or
\* through load, has rating 0 (unrated) until rate_movie sets it; a record
\* loaded from a line whose fourth field is 4.5 has rating 0.
C11_CreatedUnrated ==
    [][ nextId' # nextId =>
            \A i \in 0..(MaxSlots - 1) : Created(i) => movies'[i].rating = 0 ]_vars

\* the catalog is full, as many slots as its capacity
FullCatalog ==
    /\ pc = "menu"
    /\ movie_count = movie_capacity
    /\ allocated = movie_capacity

\* the step is an add that grew the storage
AddGrew == pc = "menu" /\ movie_capacity' # movie_capacity /\ allocated' # allocated

\* C12: a successful growth changes no existing slot: every slot below the old
\* capacity holds the same record (identity, title, director, year, rating)
\* after the growth as before, in the same order, and the growth leaves the
\* count as it is. After the add that asked for the growth, the only slot
\* that differs is the one the add stored its new record in, and the count
\* is what that store makes it.
C12_GrowKeepsSlots ==
    /\ [](FullCatalog =>
             LET st == LoadResize(Catalog, TRUE)
             IN  /\ st.count = movie_count
                 /\ st.allocated = 2 * movie_capacity
                 /\ \A i \in 0..(movie_capacity - 1) : st.movies[i] = movies[i])
    /\ [][ AddGrew =>
               /\ \A i \in 0..(movie_capacity - 1) :
                      movies'[i] # movies[i] => (movies[i] = NULL /\ Created(i))
               /\ \E k \in 0..movie_count :
                      /\ Created(k)
                      /\ movie_count' = IF k < movie_count THEN movie_count
                                        ELSE movie_count + 1 ]_vars

\* ten records were loaded, the add of an eleventh has grown the storage, and
\* the ten are where they were
C12_Witness ==
    /\ pc = "menu"
    /\ allocated = 2 * InitCapacity
    /\ movie_count = InitCapacity + 1
    /\ \A i \in 0..(InitCapacity - 1) : IsMovie(movies[i]) /\ movies[i].id = i + 1
    /\ IsMovie(movies[InitCapacity])
    /\ movies[InitCapacity].id = InitCapacity + 1
    /\ ops = 0

\* C13: for every reachable catalog, an add immediately followed by a
\* confirmed delete_movie at the index the add used restores the count to its
\* value before the add, and the removed record is in no slot any more.
C13_AddThenRemove ==
    (pc = "menu" /\ movie_count < allocated) =>
        \A garbage \in UninitRatings :
            LET new_movie == CreateMovie(<< "a" >>, << "d" >>, 1999, nextId,
                                         garbage, TRUE)
                added     == AddResult(movies, movie_count, new_movie)
                removed   == DeleteMovie(added.movies, added.count, added.index, "y")
            IN  /\ removed.count = movie_count
                /\ \A i \in 0..(MaxSlots - 1) : removed.movies[i] # new_movie

\* C14: when the file does not exist, load_movies_from_file returns without
\* error and leaves the count 0, the capacity at the value main() gave it and
\* the array unchanged, and the program goes on to the main menu.
C14_MissingFile ==
    [][ (pc = "start" /\ file = NoFile) =>
            /\ pc' = "menu"
            /\ fault' = "none"
            /\ movie_count' = 0
            /\ movie_capacity' = InitCapacity
            /\ allocated' = allocated
            /\ movies' = movies
            /\ file' = NoFile ]_vars

\* the program is at its menu and there was no file
C14_Witness ==
    /\ pc = "menu"
    /\ file = NoFile
    /\ movie_count = 0
    /\ ops = MaxOps

\* every record there is: those of the catalog and the one a direct caller holds
Records == { movies[i] : i \in 0..(MaxSlots - 1) } \cup { record }

\* a string that is there and has at least one character
HasName(str) == str # NULLSTR /\ str # << >>

C16_RatingDomain ==
    \A m \in Records : IsMovie(m) => m.rating \in { 10 * k : k \in 0..5 }

\* C17: create_movie returns no record whenever the title is empty, the
\* director is empty or year <= 1800, and then leaves nothing allocated.
C17_CreateRejects ==
    (arg.fn = "create_movie"
        /\ (~HasName(arg.title) \/ ~HasName(arg.director) \/ arg.year <= 1800)) =>
        /\ arg.ret = "NULL"
        /\ record = NULL
        /\ heap = 0

\* C18: update_movie fails when the new title or new director is empty or
\* new_year <= 0; whenever it fails, a failed string allocation included, the
\* record's title, director and year are exactly as before the call; on
\* success all three are replaced together.
C18_UpdateAtomic ==
    arg.fn = "update_movie" =>
        IF ~HasName(arg.title) \/ ~HasName(arg.director) \/ arg.year <= 0
           \/ arg.failed \/ arg.before = NULL
        THEN /\ arg.ret # "MOVIE_SUCCESS"
             /\ record = arg.before
        ELSE /\ arg.ret = "MOVIE_SUCCESS"
             /\ record = [arg.before EXCEPT !.title = arg.title,
                                            !.director = arg.director,
                                            !.year = arg.year]

\* C19: after any sequence of add, load and update operations every record
\* of the catalog satisfies 1800 < year <= current calendar year.
C19_YearDomain ==
    \A m \in Records : IsMovie(m) => (1800 < m.year /\ m.year <= CurrentYear)

C22_ExitReleasesAll ==
    pc = "done" =>
        /\ \A m \in Records :
               IsMovie(m) => \A b \in RecordBlocks(m) : CopiesIn(b, freed) = 1
        /\ \A b \in BagToSet(freed) : CopiesIn(b, freed) = 1

\* the step is a load in which the growth of the storage failed
LoadGrowFailed ==
    /\ pc = "start"
    /\ movie_capacity' # movie_capacity
    /\ allocated' # movie_capacity'

\* C23: when storage growth fails while loading, load does not abort the
\* process or access a null or unallocated array: the records already loaded
\* stay in the catalog and no slot is written through the failed allocation.
C23_LoadGrowFailure ==
    [][ LoadGrowFailed =>
            /\ fault' = "none"
            /\ pc' = "menu"
            /\ movie_count' <= allocated'
            /\ \A i \in 0..(movie_capacity - 1) : IsMovie(movies'[i]) ]_vars

\* the step is an add in which create_movie returned no record
AddCreateFailed ==
    /\ pc = "menu"
    /\ pc' = "menu"
    /\ ops' # ops
    /\ nextId' = nextId
    /\ ~(movie_count = movie_capacity /\ allocated' = allocated)

\* C24: if record construction fails during an add, the catalog is
\* exactly as before the add: count, capacity and every slot are unchanged.
C24_FailedCreateKeepsCatalog ==
    [][ AddCreateFailed =>
            /\ movie_count' = movie_count
            /\ movie_capacity' = movie_capacity
            /\ movies' = movies ]_vars

\* every slot below n holds a series
NoEmptySlot(series, n) == \A i \in 0..(n - 1) : series[i] # NULL

\* C25: search by title over the slots [0, count) returns the lowest-indexed
\* record whose title equals the query exactly (case-sensitive), and no
\* record when none has that title; of two records with the same title it
\* returns the lower-indexed one.
C25_SearchFirstMatch ==
    arg.fn = "search_tv_series" =>
        LET hits == { i \in 0..(arg.count - 1) :
                        arg.series[i] # NULL /\ arg.series[i].title = arg.title }
        IN  /\ fault = "none"
            /\ arg.ret = IF hits = {} THEN NULL ELSE arg.series[Min(hits)]

\* C26: sort terminates and leaves the slots [0, count) holding a permutation
\* of the records they held before, in non-decreasing lexicographic order of
\* title (Zoo, Apple, Mango become Apple, Mango, Zoo); the slots at index
\* >= count are untouched. Arrays with an empty slot below count are no
\* input of sort.
C26_SortOrders ==
    (arg.fn = "sort_tv_series" /\ NoEmptySlot(arg.before, arg.count)) =>
        /\ fault = "none"
        /\ arg.passes <= (IF arg.count = 0 THEN 1 ELSE arg.count)
        /\ { arg.series[i] : i \in 0..(arg.count - 1) }
               = { arg.before[i] : i \in 0..(arg.count - 1) }
        /\ \A i \in 0..(arg.count - 2) :
               Strcmp(arg.series[i].title, arg.series[i + 1].title) <= 0
        /\ \A i \in arg.count..(MaxSeries - 1) : arg.series[i] = arg.before[i]

\* series titled Zoo, Apple, Mango were sorted and stand as Apple, Mango, Zoo
C26_Witness ==
    /\ arg.fn = "sort_tv_series"
    /\ arg.count = 3
    /\ NoEmptySlot(arg.before, 3)
    /\ arg.before[0].title = << "Z", "o", "o" >>
    /\ arg.before[1].title = << "A", "p", "p", "l", "e" >>
    /\ arg.before[2].title = << "M", "a", "n", "g", "o" >>
    /\ arg.series[0] = arg.before[1]
    /\ arg.series[1] = arg.before[2]
    /\ arg.series[2] = arg.before[0]

\* C27: sort and search applied to an array that has an empty slot below
\* count never dereference that slot: they skip or reject it.
C27_EmptySlotNotRead ==
    (arg.fn # "none" /\ ~NoEmptySlot(arg.before, arg.count)) => fault = "none"

\* C28: load assigns a record's title, director and year from the first,
\* second and third '|'-separated fields of its line, also for a line that
\* contains an empty field (two adjacent '|' or a leading '|'); a value from
\* one field position is never stored as a different field.
C28_FieldPositions ==
    [][ (pc = "start" /\ file # NoFile) =>
            LET acc == StripAll(SelectSeq(Pieces(file), AcceptedPiece))
            IN  \A j \in 1..Len(acc) :
                    (j <= movie_count' /\ IsMovie(movies'[j - 1])) =>
                        /\ movies'[j - 1].title = Fields(acc[j])[1]
                        /\ movies'[j - 1].director = Fields(acc[j])[2]
                        /\ movies'[j - 1].year = atoi(Fields(acc[j])[3]) ]_vars

\* C29: after any sequence of load, add and confirmed delete operations the
\* non-empty slots of the movies array form a prefix: within
\* [0, movie_count) of the main loop no non-empty slot has a higher index
\* than an empty slot.
C29_OccupiedPrefix ==
    \A i \in 0..(movie_count - 1), j \in 0..(movie_count - 1) :
        (i < j /\ IsMovie(movies[j])) => IsMovie(movies[i])

\* of three records the second was deleted: the third stands in its slot and
\* the empty slot is the last below main()'s count
C29_Witness ==
    /\ pc = "menu"
    /\ movie_count = 3
    /\ IsMovie(movies[0])
    /\ movies[0].id = 1
    /\ IsMovie(movies[1])
    /\ movies[1].id = 3
    /\ movies[2] = NULL

\* the program runs and has not begun to tear the catalog down
Running == pc \notin { "done", "undefined" }

\* C30: after any sequence of add, load and confirmed delete operations every
\* non-empty slot references a live record, one that was not released, and no
\* two slots reference the same record; a confirmed delete releases the
\* removed record's title, director and structure exactly once.
C30_SlotsLive ==
    /\ [](Running =>
             \A i \in 0..(MaxSlots - 1) :
                 IsMovie(movies[i]) =>
                     \A b \in RecordBlocks(movies[i]) : CopiesIn(b, freed) = 0)
    /\ [](\A i \in 0..(MaxSlots - 1), j \in 0..(MaxSlots - 1) :
             (i # j /\ IsMovie(movies[i]) /\ IsMovie(movies[j])) =>
                 movies[i].id # movies[j].id)
    /\ [](\A b \in BagToSet(freed) : CopiesIn(b, freed) = 1)
    /\ [][ (pc = "confirm" /\ count' # count) =>
               freed' = freed (+) SetToBag(RecordBlocks(
                                      movies[current_highlight + current_start])) ]_vars

\* the first of two records was deleted: its three blocks were released, and
\* the record left stands in slot 0
C30_Witness ==
    /\ pc = "list"
    /\ count = 1
    /\ IsMovie(movies[0])
    /\ movies[0].id = 2
    /\ freed = SetToBag({ << 1, "title" >>, << 1, "director" >>, << 1, "movie" >> })

\* the list view is open
InView == pc \in { "list", "confirm", "rate", "rate_popup", "rate_flush" }

\* C31: in the movie list view, whatever keys were typed, every read of
\* movies[k] for drawing the rows, for rating and for deleting has
\* 0 <= k < count, for the view's count.
C31_ReadsInsideCount ==
    InView =>
        /\ RenderReads(count, current_start) \subseteq 0..(count - 1)
        /\ RateReads(count, current_highlight, current_start) \subseteq 0..(count - 1)
        /\ \A ch \in ConfirmKeys :
               DeleteReads(movies, count, current_highlight, current_start, ch)
                   \subseteq 0..(count - 1)

\* the view is scrolled and its selection is one past the last row, the state
\* in which only the tests of the index keep the reads inside
C31_Witness ==
    /\ pc = "list"
    /\ count > 0
    /\ current_start > 0
    /\ current_highlight + current_start = count
    /\ RenderReads(count, current_start) # { }

\* C32: in the movie list view the selection stays valid after every key while
\* count > 0: 0 <= current_highlight < 5, current_start >= 0 and
\* current_start + current_highlight < count, also right after a deletion.
C32_SelectionValid ==
    (pc = "list" /\ count > 0) =>
        /\ 0 <= current_highlight
        /\ current_highlight < display_count
        /\ current_start >= 0
        /\ current_start + current_highlight < count

\* the record a call of rate_movie was made on has a title
Rateable(m) == m # NULL /\ m.title # NULLSTR

\* the positions of keys that hold a key '1'..'5'
DigitsAt(keys) == { i \in 1..Len(keys) : RatingKey(keys[i]) }

\* what a call of rate_movie that ended on keys[i] leaves of record m
RatedBy(m, keys, i) == [m EXCEPT !.rating = 10 * DigitVal(keys[i])]

\* C33, as stated: rate_movie on a valid record returns only after a key in
\* '1'..'5' was read, every other key leaves the rating unchanged and leads to
\* another prompt, so that the call ends exactly when the user enters a valid
\* digit; on a NULL record or one without title it returns at once, reads no
\* key and changes nothing.
C33_EndsOnValidDigit ==
    arg.fn = "rate_movie" =>
        IF ~Rateable(arg.before)
        THEN arg.returned /\ arg.read = 0 /\ record = arg.before
        ELSE /\ arg.returned <=> DigitsAt(arg.keys) # { }
             /\ arg.returned =>
                    /\ arg.read = Min(DigitsAt(arg.keys))
                    /\ record = RatedBy(arg.before, arg.keys, arg.read)
             /\ ~arg.returned => record = arg.before

\* keys[i] is read at a prompt: it is the first key, or the key after the
\* newline (or EOF) that ends the line dropped after an earlier invalid key
\* and the key the popup took
RECURSIVE AtPrompt(_, _)
AtPrompt(keys, i) ==
    \/ i = 1
    \/ \E p \in 1..(i - 3) :
           /\ AtPrompt(keys, p)
           /\ ~RatingKey(keys[p])
           /\ keys[i - 1] \in { "\n", EOF }
           /\ \A q \in (p + 2)..(i - 2) : keys[q] \notin { "\n", EOF }

\* the positions of keys at which a prompt reads a key '1'..'5'
PromptDigitsAt(keys) == { i \in DigitsAt(keys) : AtPrompt(keys, i) }

\* C33, amended: the call ends exactly when a key '1'..'5' is read at a prompt;
\* the key after an invalid one (taken by the popup) and the keys up to the
\* next newline are dropped, digits among them too.
C33_EndsOnDigitAtPrompt ==
    arg.fn = "rate_movie" =>
        IF ~Rateable(arg.before)
        THEN arg.returned /\ arg.read = 0 /\ record = arg.before
        ELSE /\ arg.returned <=> PromptDigitsAt(arg.keys) # { }
             /\ arg.returned =>
                    /\ arg.read = Min(PromptDigitsAt(arg.keys))
                    /\ record = RatedBy(arg.before, arg.keys, arg.read)
             /\ ~arg.returned =>
                    /\ record = arg.before
                    /\ arg.read = Len(arg.keys)

\* an invalid key, the key for the popup, the end of the line, and then a
\* digit at the second prompt, which ends the call
C33_Witness ==
    /\ arg.fn = "rate_movie"
    /\ Rateable(arg.before)
    /\ arg.keys = << "0", "3", "\n", "3" >>
    /\ arg.returned
    /\ arg.prompts = 2
    /\ record.rating = 30

\* a step of rate_movie, entered from the list view with 'r'
RateStep == pc \in { "rate", "rate_popup", "rate_flush" }

\* C34: rating a record from the list view changes only that record's
\* rating: its title, director and year, every other record, the order of
\* the slots, count and capacity stay as they are.
C34_RateChangesRatingOnly ==
    [][ (RateStep \/ (pc = "list" /\ pc' = "rate")) =>
            /\ \A i \in 0..(MaxSlots - 1) :
                   IF i = rate_index /\ pc' = "list"
                   THEN /\ IsMovie(movies'[i])
                        /\ movies'[i].rating \in { 10, 20, 30, 40, 50 }
                        /\ movies'[i] = [movies[i] EXCEPT !.rating = movies'[i].rating]
                   ELSE movies'[i] = movies[i]
            /\ count' = count
            /\ movie_count' = movie_count
            /\ movie_capacity' = movie_capacity
            /\ allocated' = allocated
            /\ current_highlight' = current_highlight
            /\ current_start' = current_start ]_vars

\* the second of two records was rated 5; the first still has what
\* create_movie left in its rating
C34_Witness ==
    /\ pc = "list"
    /\ count = 2
    /\ IsMovie(movies[0])
    /\ IsMovie(movies[1])
    /\ movies[1].rating = 50
    /\ movies[0].rating \in UninitRatings
    /\ ops = MaxOps - 1

\* the highlight of main_menu before the i-th key of the last call was read
HighlightBefore(i) == IF i = 1 THEN 1 ELSE arg.trace[i - 1]

\* C35: in the main menu the highlight stays in 1..5 whatever keys are typed,
\* UP at 1 wraps to 5 and DOWN at 5 wraps to 1, keys other than UP, DOWN and
\* Enter leave the highlight as it is, and main_menu returns only on Enter,
\* with the option numbered highlight - 1, one of the five of MenuOption.
C35_MainMenu ==
    arg.fn = "main_menu" =>
        /\ Len(arg.trace) = arg.read
        /\ \A i \in 1..arg.read :
               /\ arg.trace[i] \in 1..5
               /\ arg.keys[i] = "KEY_UP" =>
                      arg.trace[i] = IF HighlightBefore(i) = 1 THEN 5
                                     ELSE HighlightBefore(i) - 1
               /\ arg.keys[i] = "KEY_DOWN" =>
                      arg.trace[i] = IF HighlightBefore(i) = 5 THEN 1
                                     ELSE HighlightBefore(i) + 1
               /\ arg.keys[i] \notin { "KEY_UP", "KEY_DOWN" } =>
                      arg.trace[i] = HighlightBefore(i)
        /\ arg.returned <=> (\E i \in 1..Len(arg.keys) : arg.keys[i] = "\n")
        /\ arg.returned =>
               /\ arg.keys[arg.read] = "\n"
               /\ \A i \in 1..(arg.read - 1) : arg.keys[i] # "\n"
               /\ arg.ret = arg.trace[arg.read] - 1
               /\ arg.ret \in MenuOption
        /\ ~arg.returned => arg.read = Len(arg.keys)

\* UP at the first entry wrapped to the last, DOWN there wrapped to the
\* first, another key changed nothing and Enter returned MENU_MOVIE_ADD
C35_Witness ==
    /\ arg.fn = "main_menu"
    /\ arg.keys = << "KEY_UP", "KEY_DOWN", "q", "\n" >>
    /\ arg.trace = << 5, 1, 1, 1 >>
    /\ arg.returned
    /\ arg.ret = 0

====
